---------------------------- MODULE Spec2Model ----------------------------
(***************************************************************************)
(* TimeStitch: keyword search over the transcripts of a YouTube channel.   *)
(*                                                                         *)
(* The repository holds several near-duplicate implementations of the      *)
(* same pipeline.  They are told apart by a "flow" value:                  *)
(*   "router"  src/api/app/routers/search.py + src/api/app/services/       *)
(*   "vercel"  src/api/search.py                                           *)
(*   "pcs"     process_channel_search of src/app.py                        *)
(*   "ui"      the Streamlit search flow at module level of src/app.py     *)
(*   "gradio"  src/youtube-transcript-searcher/app.py                      *)
(*                                                                         *)
(* Eight specifications share the module:                                  *)
(*   SpecDate     the date filter of each flow, applied to drawn inputs    *)
(*   SpecList     the paginated video lister, one page request per step    *)
(*   SpecListLive SpecList with the loop always taking its next step       *)
(*   SpecTr       the transcript fetcher and its cache, one call per step  *)
(*   SpecMatch    the keyword matcher, applied to drawn inputs             *)
(*   SpecResolve  the channel resolver, applied to drawn references        *)
(*   SpecFront    a request from its entry to its end, the loop in a step  *)
(*   Spec         a search request: list, filter, then one video per step  *)
(***************************************************************************)
EXTENDS Integers, Sequences, FiniteSets, TLC

VARIABLES
  \* --- SpecDate: one application of a flow's date filter
  dflow,        \* which flow's filter is applied
  dvideos,      \* the listed videos handed to the filter
  dstart,       \* start bound as the caller gave it (published_after for the API)
  dend,         \* end bound as the caller gave it
  dbudget,      \* max_videos (the API filter truncates to it)
  dout,         \* the filter's outcome, NoOutcome before it ran
  \* --- SpecList: one run of the lister
  lflow,        \* "app" | "svc" | "vercel"
  max_videos,   \* the budget of this listing
  all_details,  \* items accumulated so far (all_details / videos)
  next_page_token, \* continuation token held by the loop, NoToken for None
  fetch_attempt,   \* consecutive failures counted by fetch_all_video_details
  lpc,          \* "loop" | "returned" | "raised"
  lresult,      \* the list returned, <<>> before the return
  last_req,     \* history: the last page request, [token, maxResults, ok, streak]
  served,       \* provider side: number of items handed out so far
  \* --- SpecTr: the transcript cache over a run
  tflow,        \* "app" | "gradio"
  cache,        \* _transcript_cache: video id -> transcript
  last,         \* history: the last call, its provider outcomes and what it returned
  succeeded,    \* history: video id -> the transcript its first successful provider fetch gave
  ncalls,       \* number of calls made in this run (bounded by MaxCalls)
  \* --- Spec: one search request
  flow,         \* "router" | "vercel" | "pcs" | "ui"
  budget,       \* max_videos of the request
  date_in,      \* the request's date bound(s)
  videos,       \* the video list the loop walks (after listing, then after filtering)
  listed,       \* history: the list as the lister returned it
  pc,           \* "list" | "filter" | "loop" | "done" | "empty" | "rejected" | "failed_*"
  idx,          \* number of videos of the list the loop has processed
  results,      \* SearchResult list (API), formatted entries (pcs), match_details (ui)
  warnings,     \* ids of the videos a per-video warning was recorded for
  processed,    \* history: per video walked, what the provider gave for it
  \* --- SpecMatch: one call of a keyword matcher
  mflow,        \* "app" (src/app.py and the API services) | "gradio"
  mtranscript,  \* the transcript argument
  mkeyword,     \* the keyword argument
  mmatches,     \* the list returned, <<>> before the call
  mpc,          \* "call" | "returned" | "again" (returned a second time)
  \* --- SpecResolve: one call of a channel resolver
  rflow,        \* "app" | "backend" | "svc"
  rinput,       \* the channel reference
  rkey,         \* whether an API key is configured
  ranswer,      \* what the channel search answers when it is called
  rout,         \* what the call returned or raised, NoResolution before it
  rpc,          \* "call" | "returned"
  \* --- SpecFront: a search request from its entry to its end, the
  \*     per-video work summed up in one step
  fflow,        \* "router" | "vercel" | "pcs" | "ui"
  api_key,      \* YT_API_KEY: "missing" (None) | "empty" | "blank" | "set"
  channel_url,  \* the channel reference
  keyword_given,   \* whether the keyword is non-empty
  dates_valid,     \* whether the date inputs pass the checks of pcs
  fdates,       \* the start and end date inputs of pcs
  fpc,          \* "config" | "validate" | "resolve" | "locate" | "list" | "search" | "done"
  channel_id,   \* what the resolver returned, NoId before
  fvideos,      \* number of videos the listing handed to the search loop
  calls,        \* provider calls so far: name lookups, channels().list,
                \* listings (playlistItems) and transcript fetches
  outcome,      \* how the request ended: [kind, http], NoOutcomeYet before
  listing_failed,  \* history: a page fetch of the listing failed
  located,      \* what the playlist location was answered and returned or
                \* raised, NotLocated before it
  yielded,      \* the messages process_channel_search has yielded so far
  fwarned       \* date warnings put into `results` by the date filter

dateVars == <<dflow, dvideos, dstart, dend, dbudget, dout>>
listVars == <<lflow, max_videos, all_details, next_page_token, fetch_attempt,
              lpc, lresult, last_req, served>>
trVars   == <<tflow, cache, last, succeeded, ncalls>>
reqVars  == <<flow, budget, date_in, videos, listed, pc, idx, results,
              warnings, processed>>
matchVars == <<mflow, mtranscript, mkeyword, mmatches, mpc>>
resolveVars == <<rflow, rinput, rkey, ranswer, rout, rpc>>
frontVars == <<fflow, api_key, channel_url, keyword_given, dates_valid, fdates,
               fpc, channel_id, fvideos, calls, outcome, listing_failed,
               located, yielded, fwarned>>
extVars  == <<matchVars, resolveVars, frontVars>>
vars     == <<dateVars, listVars, trVars, reqVars, extVars>>

-----------------------------------------------------------------------------
(***************************************************************************)
(* Sequence helpers.                                                       *)
(***************************************************************************)

\* s[:n] of Python for n >= 0
Take(s, n) == SubSeq(s, 1, IF n < Len(s) THEN n ELSE Len(s))

Range(s) == {s[i] : i \in DOMAIN s}

\* all sequences over S of length 0..n
SeqsUpTo(S, n) == UNION {[1..k -> S] : k \in 0..n}

Min(a, b) == IF a < b THEN a ELSE b

-----------------------------------------------------------------------------
(***************************************************************************)
(* Time.  An instant is a number of seconds since 2024-01-01T00:00:00Z, a  *)
(* calendar date the number of days since 2024-01-01.                      *)
(***************************************************************************)

SecondsPerDay == 24 * 60 * 60

\* 2024-06-15 and 2024-12-31 as days since 2024-01-01 (2024 is a leap year)
DayJun15 == 31 + 29 + 31 + 30 + 31 + 14
DayDec31 == 366 - 1

\* A publish timestamp as the listing carries it: the string parses to a
\* UTC instant ("utc"), does not parse ("bad"), or is missing (None).
PubAt(t)   == [kind |-> "utc", t |-> t]
PubBad     == [kind |-> "bad", t |-> 0]
PubMissing == [kind |-> "none", t |-> 0]

\* A date bound as the caller gives it: absent, an unparseable string, a
\* calendar date ("day"), or an ISO string with/without a UTC offset.
NoDate        == [kind |-> "none", v |-> 0]
BadDate       == [kind |-> "bad", v |-> 0]
DayInput(d)   == [kind |-> "day", v |-> d]
AwareInput(t) == [kind |-> "aware", v |-> t]
NaiveInput(t) == [kind |-> "naive", v |-> t]

\* parse_date: None for a falsy or unparseable input, else the date at
\* 00:00:00 UTC.
parse_date(date_input) ==
  IF date_input.kind = "day"
    THEN [ok |-> TRUE, t |-> date_input.v * SecondsPerDay]
    ELSE [ok |-> FALSE, t |-> 0]

\* datetime(end.year, end.month, end.day, 23, 59, 59, tzinfo=utc)
EndOfDay(parsed) ==
  [ok |-> parsed.ok, t |-> parsed.t + 23 * 60 * 60 + 59 * 60 + 59]


-----------------------------------------------------------------------------
(***************************************************************************)
(* Date filter.  A listed video is a record with an id and a publish       *)
(* timestamp `pub`; ids are the positions in the listing, so they are      *)
(* unique.  Each filter returns                                            *)
(*   status    "ok"          the filter ran                                *)
(*             "rejected"    the date inputs were refused (pcs)            *)
(*             "unfiltered"  a ValueError was swallowed, list left as is   *)
(*             "error"       an exception escaped to the request handler   *)
(*   filtered  the list the transcript loop will walk                      *)
(*   warnings  ids of the videos reported with a per-video warning         *)
(***************************************************************************)

FilterOutcome(status, filtered, warns) ==
  [status |-> status, filtered |-> filtered, warnings |-> warns]

IdsOf(vs) == [i \in DOMAIN vs |-> vs[i].id]

Parses(v)     == v.pub.kind = "utc"
Unparsable(v) == v.pub.kind = "bad"

\* process_channel_search, steps 1 and 4: both dates are required, the end
\* date is moved to 23:59:59, and start <= pub_date <= end decides.  A
\* timestamp that does not parse is a warning and the video is skipped.
pcs_filter(vs, start_date_input, end_date_input) ==
  LET start_date == parse_date(start_date_input)
      parsed_end == parse_date(end_date_input)
      end_date   == IF parsed_end.ok THEN EndOfDay(parsed_end) ELSE parsed_end
      Keep(v)    == Parses(v) /\ start_date.t <= v.pub.t /\ v.pub.t <= end_date.t
      Warn(v)    == ~Parses(v)
  IN  IF ~start_date.ok \/ ~end_date.ok THEN FilterOutcome("rejected", <<>>, <<>>)
      ELSE IF start_date.t > end_date.t THEN FilterOutcome("rejected", <<>>, <<>>)
      ELSE FilterOutcome("ok", SelectSeq(vs, Keep), IdsOf(SelectSeq(vs, Warn)))

\* The Streamlit flow, step 4: either bound may be absent; both come from
\* parse_date unchanged, so the end bound is the end date at 00:00:00.
ui_filter(vs, start_date_input, end_date_input) ==
  LET start_date == parse_date(start_date_input)
      end_date   == parse_date(end_date_input)
      Keep(v)    == /\ Parses(v)
                    /\ (~start_date.ok \/ v.pub.t >= start_date.t)
                    /\ (~end_date.ok \/ v.pub.t <= end_date.t)
      Warn(v)    == ~Parses(v)
  IN  FilterOutcome("ok", SelectSeq(vs, Keep), IdsOf(SelectSeq(vs, Warn)))

\* The first video of the list whose comparison raises, 0 when none does:
\* the list comprehension stops at the first exception.
FirstRaising(vs, cutoff) ==
  LET Raises(i) == ~Parses(vs[i]) \/ cutoff.kind = "naive"
      bad == {i \in DOMAIN vs : Raises(i)}
  IN  IF bad = {} THEN 0 ELSE CHOOSE i \in bad : \A j \in bad : i <= j

\* The API search, "Filter by published_after date if provided".  The
\* whole comprehension sits in one try: a ValueError (cutoff or any
\* publishedAt does not parse) leaves `videos` as listed; an AttributeError
\* (publishedAt is None) or a TypeError (a cutoff without UTC offset
\* compared with an aware timestamp) escapes to the handler's except.
api_filter(vs, published_after, budgetArg) ==
  LET Keep(v) == v.pub.t >= published_after.v
      k == FirstRaising(vs, published_after)
  IN  IF published_after.kind = "none" THEN FilterOutcome("ok", vs, <<>>)
      ELSE IF published_after.kind = "bad" THEN FilterOutcome("unfiltered", vs, <<>>)
      ELSE IF k = 0 THEN FilterOutcome("ok", Take(SelectSeq(vs, Keep), budgetArg), <<>>)
      ELSE IF vs[k].pub.kind = "none" THEN FilterOutcome("error", <<>>, <<>>)
      ELSE IF vs[k].pub.kind = "bad" THEN FilterOutcome("unfiltered", vs, <<>>)
      ELSE FilterOutcome("error", <<>>, <<>>)

\* Bounds of the date inputs.
MaxListed == 3
MaxBudget == 2

NoOutcome == FilterOutcome("none", <<>>, <<>>)

\* Publish instants around the window edges of the spec's example.
EdgeInstants ==
  { 0,
    DayJun15 * SecondsPerDay + 12 * 60 * 60,
    DayJun15 * SecondsPerDay + 23 * 60 * 60 + 59 * 60 + 59,
    (DayJun15 + 1) * SecondsPerDay,
    DayDec31 * SecondsPerDay + 23 * 60 * 60 + 59 * 60 + 59 }
ExampleDays == {0, DayJun15, DayDec31}

AppPubs == {PubAt(t) : t \in EdgeInstants} \cup {PubBad}
ApiPubs == {PubAt(t) : t \in {0, (DayJun15 + 1) * SecondsPerDay}}
             \cup {PubBad, PubMissing}

AppDates == {NoDate, BadDate} \cup {DayInput(d) : d \in ExampleDays}
UiDates  == {NoDate} \cup {DayInput(d) : d \in ExampleDays}
ApiDates == {NoDate, BadDate, AwareInput(DayJun15 * SecondsPerDay),
             NaiveInput(DayJun15 * SecondsPerDay)}

MkVideos(pubs) == [i \in DOMAIN pubs |-> [id |-> i, pub |-> pubs[i]]]

DateIdle ==
  /\ dflow = "idle" /\ dvideos = <<>> /\ dstart = NoDate /\ dend = NoDate
  /\ dbudget = 0 /\ dout = NoOutcome

DateInit ==
  /\ dout = NoOutcome
  /\ \/ /\ dflow = "pcs"
        /\ dstart \in AppDates /\ dend \in AppDates /\ dbudget = 0
        /\ dvideos \in {MkVideos(p) : p \in SeqsUpTo(AppPubs, MaxListed)}
     \/ /\ dflow = "ui"
        /\ dstart \in UiDates /\ dend \in UiDates /\ dbudget = 0
        /\ dvideos \in {MkVideos(p) : p \in SeqsUpTo(AppPubs, MaxListed)}
     \/ /\ dflow \in {"router", "vercel"}
        /\ dstart \in ApiDates /\ dend = NoDate /\ dbudget \in 0..MaxBudget
        /\ dvideos \in {MkVideos(p) : p \in SeqsUpTo(ApiPubs, MaxListed)}

FilterPcs ==
  /\ dflow = "pcs" /\ dout = NoOutcome
  /\ dout' = pcs_filter(dvideos, dstart, dend)
  /\ UNCHANGED <<dflow, dvideos, dstart, dend, dbudget, listVars, trVars, reqVars, extVars>>

FilterUi ==
  /\ dflow = "ui" /\ dout = NoOutcome
  /\ dout' = ui_filter(dvideos, dstart, dend)
  /\ UNCHANGED <<dflow, dvideos, dstart, dend, dbudget, listVars, trVars, reqVars, extVars>>

FilterApi ==
  /\ dflow \in {"router", "vercel"} /\ dout = NoOutcome
  /\ dout' = api_filter(dvideos, dstart, dbudget)
  /\ UNCHANGED <<dflow, dvideos, dstart, dend, dbudget, listVars, trVars, reqVars, extVars>>


-----------------------------------------------------------------------------
(***************************************************************************)
(* Paginated video lister.                                                 *)
(*   "app"     fetch_all_video_details (src/app.py and the gradio copy):   *)
(*             asks for full pages, retries a failed page, truncates       *)
(*   "svc"     YouTubeService.fetch_videos of src/api/app/services (and    *)
(*             src/backend): asks for what is still missing, no try        *)
(*   "vercel"  YouTubeService.fetch_videos of src/api/search.py: the same  *)
(*             loop inside try/except Exception: break                     *)
(* A step is one playlistItems().list request and what the loop does with  *)
(* its answer.  The provider answers a request for at most maxResults      *)
(* items with a page of 0..maxResults items and, while it has pages left,  *)
(* a continuation token; or the request raises.  A token is the number of  *)
(* pages answered before it, NoToken stands for None.                      *)
(***************************************************************************)

RETRY_ATTEMPTS == 3

\* Bounds: the largest page the provider hands out (50 in the code), the
\* number of pages of a playlist and the largest budget of a listing.
MaxPageSize == 2
MaxPages == 3
MaxListBudget == 3

NoToken == 0

NoRequest == [token |-> NoToken, maxResults |-> 0, ok |-> TRUE, streak |-> 0]

\* maxResults of the request: 50 (a full page) in fetch_all_video_details,
\* min(50, max_videos - len(videos)) in fetch_videos.
RequestSize(f, have, want) ==
  IF f = "app" THEN MaxPageSize ELSE Min(MaxPageSize, want - have)

\* A page: its items, numbered on from the items served so far, each
\* complete or lacking a field the listing reads (videoId, publishedAt,
\* title), and whether a nextPageToken comes with it.
Pages(from, maxResults, token) ==
  { [items |-> [i \in 1..n |-> [id |-> from + i, complete |-> c[i]]],
     more  |-> m]
    : n \in 0..maxResults, c \in [1..MaxPageSize -> BOOLEAN],
      m \in {b \in BOOLEAN : b => token + 1 < MaxPages} }

IsComplete(item) == item.complete

\* What a page adds to the accumulated list: _fetch_video_details_page
\* keeps an item only `if video_id and published_at and title`; fetch_videos
\* appends every item, with None for a field the item lacks.
PageItems(f, page) ==
  IF f = "app" THEN SelectSeq(page.items, IsComplete) ELSE page.items

\* final_details = all_details[:max_videos]; fetch_videos returns `videos`.
TruncateMutant(f, items, want) == items
Truncate(f, items, want) ==
  IF f = "app" THEN Take(items, want) ELSE items

\* while len(videos) < max_videos (fetch_videos); while True (app)
LoopGuard(f, have, want) == f = "app" \/ have < want

\* after a page: `if len(all_details) >= max_videos: break` and
\* `if not next_page_token: break`
LoopEndsAtBudget(f, have, want, more) == have >= want
LoopEnds(f, have, want, more) == have >= want \/ ~more

ListIdle ==
  /\ lflow = "idle" /\ max_videos = 0 /\ all_details = <<>>
  /\ next_page_token = NoToken /\ fetch_attempt = 0 /\ lpc = "idle"
  /\ lresult = <<>> /\ last_req = NoRequest /\ served = 0

ListInit ==
  /\ lflow \in {"app", "svc", "vercel"}
  /\ max_videos \in 0..MaxListBudget
  /\ all_details = <<>> /\ next_page_token = NoToken /\ fetch_attempt = 0
  /\ lpc = "loop" /\ lresult = <<>> /\ last_req = NoRequest /\ served = 0

Requested(ok) ==
  [token |-> next_page_token,
   maxResults |-> RequestSize(lflow, Len(all_details), max_videos),
   ok |-> ok,
   streak |-> IF ok THEN 0 ELSE last_req.streak + 1]

\* The loop condition of fetch_videos is false: return without a request.
ListSkip ==
  /\ lpc = "loop" /\ ~LoopGuard(lflow, Len(all_details), max_videos)
  /\ lpc' = "returned"
  /\ lresult' = Truncate(lflow, all_details, max_videos)
  /\ UNCHANGED <<lflow, max_videos, all_details, next_page_token,
                 fetch_attempt, last_req, served>>
  /\ UNCHANGED <<dateVars, trVars, reqVars, extVars>>

\* A page request is answered.
ListPage ==
  /\ lpc = "loop" /\ LoopGuard(lflow, Len(all_details), max_videos)
  /\ \E page \in Pages(served,
                       RequestSize(lflow, Len(all_details), max_videos),
                       next_page_token) :
       LET got == all_details \o PageItems(lflow, page)
       IN  /\ all_details' = got
           /\ served' = served + Len(page.items)
           /\ next_page_token' = IF page.more THEN next_page_token + 1 ELSE NoToken
           /\ last_req' = Requested(TRUE)
           /\ IF LoopEnds(lflow, Len(got), max_videos, page.more)
                THEN /\ lpc' = "returned"
                     /\ lresult' = Truncate(lflow, got, max_videos)
                     /\ UNCHANGED fetch_attempt
                ELSE /\ fetch_attempt' = 0
                     /\ UNCHANGED <<lpc, lresult>>
  /\ UNCHANGED <<lflow, max_videos, dateVars, trVars, reqVars, extVars>>

\* A page request raises.  fetch_all_video_details counts the failure and
\* gives up at RETRY_ATTEMPTS; the services' fetch_videos lets the exception
\* out; the vercel fetch_videos breaks and returns what it has.
ListPageFails ==
  /\ lpc = "loop" /\ LoopGuard(lflow, Len(all_details), max_videos)
  /\ last_req' = Requested(FALSE)
  /\ CASE lflow = "app" ->
            /\ fetch_attempt' = fetch_attempt + 1
            /\ lpc' = IF fetch_attempt + 1 >= RETRY_ATTEMPTS THEN "raised" ELSE "loop"
            /\ UNCHANGED lresult
       [] lflow = "svc" ->
            /\ lpc' = "raised"
            /\ UNCHANGED <<fetch_attempt, lresult>>
       [] OTHER ->
            /\ lpc' = "returned"
            /\ lresult' = Truncate(lflow, all_details, max_videos)
            /\ UNCHANGED fetch_attempt
  /\ UNCHANGED <<lflow, max_videos, all_details, next_page_token, served>>
  /\ UNCHANGED <<dateVars, trVars, reqVars, extVars>>


-----------------------------------------------------------------------------
(***************************************************************************)
(* Keyword matcher.  A text is a sequence of characters, a transcript a    *)
(* sequence of segments [text, start].                                     *)
(***************************************************************************)

Seg(text, start) == [text |-> text, start |-> start]

\* str.lower() on the model's alphabet
LowerChar(ch) ==
  CASE ch = "A" -> "a" [] ch = "B" -> "b" [] OTHER -> ch
Lower(text) == [i \in DOMAIN text |-> LowerChar(text[i])]

\* `needle in hay` of Python: a contiguous occurrence; "" is in every string
Contains(hay, needle) ==
  \E k \in 0..(Len(hay) - Len(needle)) :
     SubSeq(hay, k + 1, k + Len(needle)) = needle

SegmentMatchesCased(segment, keyword) == Contains(segment.text, keyword)
SegmentMatches(segment, keyword) == Contains(Lower(segment.text), Lower(keyword))

MatchInfo(transcript, i) ==
  [start          |-> transcript[i].start,
   text           |-> transcript[i].text,
   context_before |-> IF i > 1 THEN transcript[i - 1].text ELSE <<>>,
   context_after  |-> IF i < Len(transcript) THEN transcript[i + 1].text ELSE <<>>]

RECURSIVE MatchesFrom(_, _, _)
MatchesFrom(transcript, keyword, i) ==
  IF i > Len(transcript) THEN <<>>
  ELSE (IF SegmentMatches(transcript[i], keyword)
          THEN <<MatchInfo(transcript, i)>> ELSE <<>>)
       \o MatchesFrom(transcript, keyword, i + 1)

search_in_transcript_newest_first(transcript, keyword) ==
  LET m == MatchesFrom(transcript, keyword, 1)
  IN  [k \in DOMAIN m |-> m[Len(m) + 1 - k]]
search_in_transcript(transcript, keyword) == MatchesFrom(transcript, keyword, 1)

\* The transcript after a search: the loops read segment['text'] and
\* segment['start'] and assign to neither (lower() returns a new string).
TranscriptLoweredInPlace(transcript, keyword) ==
  [i \in DOMAIN transcript |->
     Seg(Lower(transcript[i].text), transcript[i].start)]
TranscriptAfterSearch(transcript, keyword) == transcript

\* _transcript_cache of src/app.py: video id -> transcript.  The list that
\* fetch_transcript returns, and that the matcher is given, is the cached
\* object itself.
EmptyCache == <<>>
CachePutAlone(c, v, tr) == [x \in {v} |-> tr]
CachePut(c, v, tr) == [x \in (DOMAIN c) \cup {v} |-> IF x = v THEN tr ELSE c[x]]
CacheAfterSearch(c, transcript, after) ==
  [v \in DOMAIN c |-> IF c[v] = transcript THEN after ELSE c[v]]

\* The gradio copy: [] at once `if not transcript or not keyword`, else the
\* segments themselves for which re.escape(keyword) is found, IGNORECASE.
search_in_transcript_gradio(transcript, keyword) ==
  IF transcript = <<>> \/ keyword = <<>> THEN <<>>
  ELSE LET Hit(segment) == SegmentMatches(segment, keyword)
       IN  SelectSeq(transcript, Hit)

\* Bounds: segments of a transcript, characters of a segment's text.
MaxSegs == 3
MaxSegText == 2

SegChars == {"A", "b"}
SegTexts == SeqsUpTo(SegChars, MaxSegText)
Keywords == {<<>>, <<"a">>, <<"b">>, <<"a", "b">>, <<"A", "B">>}

\* segment i starts at second i
MkTranscript(texts) == [i \in DOMAIN texts |-> Seg(texts[i], i)]

MatchIdle ==
  /\ mflow = "idle" /\ mtranscript = <<>> /\ mkeyword = <<>>
  /\ mmatches = <<>> /\ mpc = "idle"

MatchInit ==
  /\ mflow \in {"app", "gradio"}
  /\ mtranscript \in {MkTranscript(t) : t \in SeqsUpTo(SegTexts, MaxSegs)}
  /\ mkeyword \in Keywords
  /\ mmatches = <<>> /\ mpc = "call"

\* one call, and a second one on what the first left behind
MatchApp ==
  /\ mpc \in {"call", "returned"} /\ mflow = "app"
  /\ mmatches' = search_in_transcript(mtranscript, mkeyword)
  /\ mtranscript' = TranscriptAfterSearch(mtranscript, mkeyword)
  /\ cache' = CacheAfterSearch(cache, mtranscript, mtranscript')
  /\ mpc' = (IF mpc = "call" THEN "returned" ELSE "again")
  /\ UNCHANGED <<mflow, mkeyword, tflow, last, succeeded, ncalls>>
  /\ UNCHANGED <<dateVars, listVars, reqVars, resolveVars, frontVars>>

MatchGradio ==
  /\ mpc \in {"call", "returned"} /\ mflow = "gradio"
  /\ mmatches' = search_in_transcript_gradio(mtranscript, mkeyword)
  /\ mtranscript' = TranscriptAfterSearch(mtranscript, mkeyword)
  /\ cache' = CacheAfterSearch(cache, mtranscript, mtranscript')
  /\ mpc' = (IF mpc = "call" THEN "returned" ELSE "again")
  /\ UNCHANGED <<mflow, mkeyword, tflow, last, succeeded, ncalls>>
  /\ UNCHANGED <<dateVars, listVars, reqVars, resolveVars, frontVars>>

-----------------------------------------------------------------------------
(***************************************************************************)
(* Transcript fetcher and cache (src/app.py, and the gradio copy whose     *)
(* fetch_transcript neither reads nor writes the cache).                   *)
(*                                                                         *)
(* The provider answers get_transcript with a transcript, or raises        *)
(* TranscriptsDisabled, NoTranscriptFound or something else.  After        *)
(* NoTranscriptFound fetch_transcript also asks list_transcripts, so that  *)
(* outcome costs two provider requests.                                    *)
(***************************************************************************)

Fetched(tr) == [kind |-> "ok", tr |-> tr]
Disabled    == [kind |-> "disabled", tr |-> <<>>]
NotFound    == [kind |-> "notfound", tr |-> <<>>]
Failed      == [kind |-> "error", tr |-> <<>>]

ProviderRequests(o) == IF o.kind = "notfound" THEN 2 ELSE 1


FetchResult(c, ok, tr, n, err) ==
  [cache |-> c, ok |-> ok, transcript |-> tr, requests |-> n, error |-> err]

\* The gradio fetch_transcript: always asks the provider, caches nothing.
fetch_transcript_uncached(c, v, o) ==
  IF o.kind = "ok" THEN FetchResult(c, TRUE, o.tr, 1, "none")
  ELSE FetchResult(c, FALSE, <<>>, ProviderRequests(o), o.kind)

\* A fetch that would remember a failure as an empty transcript.
fetch_transcript_negative(f, c, v, o) ==
  IF v \in DOMAIN c THEN FetchResult(c, TRUE, c[v], 0, "none")
  ELSE IF o.kind = "ok" THEN FetchResult(CachePut(c, v, o.tr), TRUE, o.tr, 1, "none")
  ELSE FetchResult(CachePut(c, v, <<>>), FALSE, <<>>, ProviderRequests(o), o.kind)

\* A fetch that never looks into the cache nor fills it.
fetch_transcript_forgetful(f, c, v, o) == fetch_transcript_uncached(c, v, o)

\* fetch_transcript(video_id): every provider exception comes out as a
\* TranscriptFetchError (ok = FALSE); `error` keeps what the provider said.
fetch_transcript(f, c, v, o) ==
  IF f = "gradio" THEN fetch_transcript_uncached(c, v, o)
  ELSE IF v \in DOMAIN c THEN FetchResult(c, TRUE, c[v], 0, "none")
  ELSE IF o.kind = "ok" THEN FetchResult(CachePut(c, v, o.tr), TRUE, o.tr, 1, "none")
  ELSE FetchResult(c, FALSE, <<>>, ProviderRequests(o), o.kind)

\* `except TranscriptFetchError` of _process_single_video: the attempt is
\* counted and, below RETRY_ATTEMPTS, repeated, whatever the provider said.
Retries(error) == TRUE

ProcessResult(c, status, tr, matches, attempts, n) ==
  [cache |-> c, status |-> status, transcript |-> tr, matches |-> matches,
   attempts |-> attempts, requests |-> n]

\* The retry loop of _process_single_video from attempt k on: `script[k]`
\* is what the provider answers to the k-th fetch_transcript call.
RECURSIVE FetchWithRetry(_, _, _, _, _, _)
FetchWithRetry(f, c, v, script, k, n) ==
  LET r == fetch_transcript(f, c, v, script[k])
  IN  IF r.ok
        THEN [cache |-> r.cache, ok |-> TRUE, transcript |-> r.transcript,
              attempts |-> k, requests |-> n + r.requests]
      ELSE IF k < RETRY_ATTEMPTS /\ Retries(r.error)
        THEN FetchWithRetry(f, r.cache, v, script, k + 1, n + r.requests)
      ELSE [cache |-> r.cache, ok |-> FALSE, transcript |-> <<>>,
            attempts |-> k, requests |-> n + r.requests]

\* _process_single_video(video_id, title, pub_date_str, keyword): cache
\* hit, or fetch with retries and cache the result; then search.  Any
\* exception ends in the "Skipping video" warning ("skipped").
process_single_video(f, c, v, keyword, script) ==
  IF v \in DOMAIN c
    THEN ProcessResult(c, "ok", c[v], search_in_transcript(c[v], keyword), 0, 0)
  ELSE LET r == FetchWithRetry(f, c, v, script, 1, 0)
       IN  IF r.ok
             THEN ProcessResult(CachePut(r.cache, v, r.transcript), "ok",
                                r.transcript,
                                search_in_transcript(r.transcript, keyword),
                                r.attempts, r.requests)
           ELSE ProcessResult(r.cache, "skipped", <<>>, <<>>,
                              r.attempts, r.requests)

\* Bounds of a run: the video ids it touches and the calls it makes.
MaxTrVideos == 2
MaxCalls == 3

TrVideoIds == 1..MaxTrVideos

TranscriptHit  == <<Seg(<<"x">>, 0), Seg(<<"A", "b">>, 5), Seg(<<"a">>, 9)>>
TranscriptMiss == <<Seg(<<"b", "x">>, 0)>>
Transcripts    == {<<>>, TranscriptHit, TranscriptMiss}
TheKeyword     == <<"a">>

ProviderOutcomes == {Fetched(tr) : tr \in Transcripts} \cup {Disabled, NotFound, Failed}
\* What the provider answers to the successive fetches of one video; what
\* follows a successful answer is never asked for, so it repeats that answer.
Scripts ==
  { s \in [1..RETRY_ATTEMPTS -> ProviderOutcomes] :
      \A k \in 1..(RETRY_ATTEMPTS - 1) : s[k].kind = "ok" => s[k + 1] = s[k] }

KindsOf(script, n) == [i \in 1..n |-> script[i].kind]

\* history record of a call: what was called for which video, whether it
\* returned a transcript, the provider's answers it consumed, the provider
\* requests it made, and whether the call before it failed for the same video
CallRecord(op, v, ok, tr, outcomes, n) ==
  [op |-> op, id |-> v, ok |-> ok, transcript |-> tr, outcomes |-> outcomes,
   requests |-> n, after_failure |-> ~last.ok /\ last.id = v]

NoCall ==
  [op |-> "none", id |-> 0, ok |-> TRUE, transcript |-> <<>>,
   outcomes |-> <<>>, requests |-> 0, after_failure |-> FALSE]

TrIdle ==
  /\ tflow = "idle" /\ cache = EmptyCache /\ last = NoCall
  /\ succeeded = EmptyCache /\ ncalls = 0

TrInit ==
  /\ tflow \in {"app", "gradio"}
  /\ cache = EmptyCache /\ last = NoCall /\ succeeded = EmptyCache /\ ncalls = 0

\* history: the first transcript a provider fetch gave for v
NoteSuccess(v, ok, n, tr) ==
  IF ok /\ n > 0 /\ v \notin DOMAIN succeeded
    THEN CachePut(succeeded, v, tr) ELSE succeeded

\* fetch_transcript called on its own, as the Streamlit loop does.
CallFetchTranscript(v) ==
  /\ tflow = "app" /\ ncalls < MaxCalls
  /\ \E o \in ProviderOutcomes :
     \E r \in {fetch_transcript(tflow, cache, v, o)} :
           /\ cache' = r.cache
           /\ last' = CallRecord("fetch", v, r.ok, r.transcript,
                                  IF r.requests = 0 THEN <<>> ELSE <<o.kind>>,
                                  r.requests)
           /\ succeeded' = NoteSuccess(v, r.ok, r.requests, r.transcript)
  /\ ncalls' = ncalls + 1
  /\ UNCHANGED <<tflow, dateVars, listVars, reqVars, extVars>>

\* _process_single_video called for a video, as process_channel_search does.
CallProcessSingleVideo(v) ==
  /\ tflow \in {"app", "gradio"} /\ ncalls < MaxCalls
  /\ \E script \in Scripts :
     \E r \in {process_single_video(tflow, cache, v, TheKeyword, script)} :
           /\ cache' = r.cache
           /\ last' = CallRecord("process", v, r.status = "ok", r.transcript,
                                  KindsOf(script, r.attempts), r.requests)
           /\ succeeded' = NoteSuccess(v, r.status = "ok", r.requests, r.transcript)
  /\ ncalls' = ncalls + 1
  /\ UNCHANGED <<tflow, dateVars, listVars, reqVars, extVars>>


-----------------------------------------------------------------------------
(***************************************************************************)
(* A search request.  pc is the request's position:                        *)
(*   "list"      before the listing                                        *)
(*   "filter"    listed, before the date filter                            *)
(*   "loop"      walking the videos, `idx` of them done                    *)
(*   "done"      the result list was returned                              *)
(*   "empty"     pcs/ui ended with a "no videos" message                   *)
(*   "rejected"  pcs refused the date inputs before any provider call      *)
(*   "failed_listing", "failed_filter", "failed_transcript",               *)
(*   "failed_result"   an exception reached the handler (HTTP 500 in the   *)
(*                     API, an error message in pcs/ui)                    *)
(* A listed video is [id, pub, meta]: `meta` says that title and           *)
(* thumbnail are present.                                                  *)
(***************************************************************************)

\* Bound: the number of videos of the channel's uploads playlist.
MaxPlaylist == 2

DateIn(start, end) == [start |-> start, end |-> end]

IsApi(f) == f \in {"router", "vercel"}

\* fetch_count = max_videos * 3 (router) or * 5 (vercel) if published_after
\* else max_videos; pcs and ui list max_videos.
fetch_count(f, want, published_after) ==
  IF IsApi(f) /\ published_after.kind # "none"
    THEN want * (IF f = "router" THEN 3 ELSE 5)
    ELSE want

Cutoff == DayJun15 * SecondsPerDay

ReqPubs(f) ==
  IF IsApi(f)
    THEN {PubAt(0), PubAt(Cutoff + SecondsPerDay), PubBad, PubMissing}
    ELSE {PubAt(0), PubAt(DayDec31 * SecondsPerDay), PubBad}

\* What the API's fetch_videos appends may lack title/thumbnail/publishedAt;
\* fetch_all_video_details keeps complete items only.
ReqItems(f) ==
  { [pub |-> p, meta |-> m] : p \in ReqPubs(f),
                               m \in IF IsApi(f) THEN BOOLEAN ELSE {TRUE} }

MkListing(items) ==
  [i \in DOMAIN items |-> [id |-> i, pub |-> items[i].pub, meta |-> items[i].meta]]

\* The lists a listing for `n` videos can return (at most n items, see
\* SpecList), out of a playlist of at most MaxPlaylist videos.
Listings(f, n) == {MkListing(s) : s \in SeqsUpTo(ReqItems(f), Min(n, MaxPlaylist))}

ReqDates(f) ==
  CASE IsApi(f)  -> {DateIn(d, NoDate) : d \in ApiDates}
    [] f = "pcs" -> {DateIn(DayInput(0), DayInput(DayJun15)),
                     DateIn(NoDate, DayInput(DayJun15))}
    [] OTHER     -> {DateIn(NoDate, NoDate),
                     DateIn(DayInput(0), DayInput(DayJun15))}

\* YouTubeService.get_transcript: the raw transcript, [] on any exception.
get_transcript_raising(o) ==
  [raised |-> o.kind # "ok", transcript |-> o.tr]
get_transcript(o) ==
  [raised |-> FALSE, transcript |-> IF o.kind = "ok" THEN o.tr ELSE <<>>]

\* `if transcript:` ... `if matches:` guard the append of a result.
EmitsAlways(transcript, matches) == TRUE
Emits(transcript, matches) == transcript # <<>> /\ matches # <<>>

\* SearchResult(video_id, title, published_at, thumbnail, matches): every
\* field but matches is a str, None fails the validation.
ValidResult(v) == v.meta /\ v.pub.kind # "none"

Result(v, matches) == [id |-> v.id, matches |-> matches]

\* history record of one walked video
Walked(v, kind, tr, n) ==
  [id |-> v.id, fetched |-> kind = "ok",
   hit |-> kind = "ok" /\ search_in_transcript(tr, TheKeyword) # <<>>,
   requests |-> n]

ReqIdle ==
  /\ flow = "idle" /\ budget = 0 /\ date_in = DateIn(NoDate, NoDate)
  /\ videos = <<>> /\ listed = <<>> /\ pc = "idle" /\ idx = 0
  /\ results = <<>> /\ warnings = <<>> /\ processed = <<>>

ReqInit ==
  /\ flow \in {"router", "vercel", "pcs", "ui"}
  /\ budget \in 0..MaxBudget
  /\ date_in \in ReqDates(flow)
  /\ videos = <<>> /\ listed = <<>> /\ pc = "list" /\ idx = 0
  /\ results = <<>> /\ warnings = <<>> /\ processed = <<>>
  /\ tflow = "app" /\ cache = EmptyCache /\ last = NoCall
  /\ succeeded = EmptyCache /\ ncalls = 0

\* pcs, step 1: the date inputs are checked before anything is fetched.
ReqReject ==
  /\ pc = "list" /\ flow = "pcs"
  /\ pcs_filter(<<>>, date_in.start, date_in.end).status = "rejected"
  /\ pc' = "rejected"
  /\ UNCHANGED <<flow, budget, date_in, videos, listed, idx, results,
                 warnings, processed, trVars, dateVars, listVars, extVars>>

\* The listing returns.  `if not videos: return []` (vercel) and the "No
\* videos found" exits of pcs and ui end the request here.
ReqList ==
  /\ pc = "list"
  /\ flow = "pcs" => pcs_filter(<<>>, date_in.start, date_in.end).status # "rejected"
  /\ \E vs \in Listings(flow, fetch_count(flow, budget, date_in.start)) :
       /\ videos' = vs
       /\ listed' = vs
       /\ pc' = CASE vs = <<>> /\ flow = "vercel"       -> "done"
                  [] vs = <<>> /\ flow \in {"pcs", "ui"} -> "empty"
                  [] OTHER                               -> "filter"
  /\ UNCHANGED <<flow, budget, date_in, idx, results, warnings, processed, trVars, dateVars, listVars, extVars>>

\* The listing raises: straight out of fetch_videos (router), after the
\* retries of fetch_all_video_details (pcs, ui).  The vercel fetch_videos
\* swallows the exception and returns what it has.
ReqListFails ==
  /\ pc = "list" /\ flow # "vercel" /\ budget > 0
  /\ flow = "pcs" => pcs_filter(<<>>, date_in.start, date_in.end).status # "rejected"
  /\ pc' = "failed_listing"
  /\ UNCHANGED <<flow, budget, date_in, videos, listed, idx, results,
                 warnings, processed, trVars, dateVars, listVars, extVars>>

date_filter(f, vs, din, want) ==
  CASE IsApi(f)  -> api_filter(vs, din.start, want)
    [] f = "pcs" -> pcs_filter(vs, din.start, din.end)
    [] OTHER     -> ui_filter(vs, din.start, din.end)

\* The date filter runs; an empty list ends the request.
ReqFilter ==
  /\ pc = "filter"
  /\ LET out == date_filter(flow, videos, date_in, budget)
     IN  /\ videos' = out.filtered
         /\ warnings' = out.warnings
         /\ pc' = CASE out.status = "error"                   -> "failed_filter"
                    [] out.filtered = <<>> /\ IsApi(flow)      -> "done"
                    [] out.filtered = <<>>                     -> "empty"
                    [] OTHER                                   -> "loop"
  /\ UNCHANGED <<flow, budget, date_in, listed, idx, results, processed, trVars,
                 dateVars, listVars, extVars>>

AfterVideo == IF idx + 1 = Len(videos) THEN "done" ELSE "loop"

\* The API loop body for videos[idx + 1].
ReqVideoApi ==
  /\ pc = "loop" /\ IsApi(flow) /\ idx < Len(videos)
  /\ \E o \in ProviderOutcomes :
       LET v       == videos[idx + 1]
           got     == get_transcript(o)
           matches == search_in_transcript(got.transcript, TheKeyword)
       IN  /\ processed' = Append(processed, Walked(v, o.kind, o.tr, 1))
           /\ IF got.raised
                THEN pc' = "failed_transcript" /\ UNCHANGED results
              ELSE IF ~Emits(got.transcript, matches)
                THEN pc' = AfterVideo /\ UNCHANGED results
              ELSE IF ~ValidResult(v)
                THEN pc' = "failed_result" /\ UNCHANGED results
              ELSE pc' = AfterVideo /\ results' = Append(results, Result(v, matches))
  /\ idx' = idx + 1
  /\ UNCHANGED <<flow, budget, date_in, videos, listed, warnings, trVars,
                 dateVars, listVars, extVars>>

\* process_channel_search, step 5: _process_single_video for videos[idx + 1];
\* its warning entry goes into the results like the matches do.
ReqVideoPcs ==
  /\ pc = "loop" /\ flow = "pcs" /\ idx < Len(videos)
  /\ \E script \in Scripts :
     \E r \in {process_single_video(tflow, cache, videos[idx + 1].id,
                                     TheKeyword, script)} :
       LET v == videos[idx + 1]
           s == script[IF r.attempts = 0 THEN 1 ELSE r.attempts]
       IN  /\ cache' = r.cache
           /\ processed' = Append(processed,
                 Walked(v, IF r.status = "ok" THEN "ok" ELSE s.kind,
                        r.transcript, r.requests))
           /\ results' = IF r.status = "ok" /\ r.matches # <<>>
                           THEN Append(results, Result(v, r.matches)) ELSE results
           /\ warnings' = IF r.status = "ok" THEN warnings ELSE Append(warnings, v.id)
  /\ pc' = AfterVideo
  /\ idx' = idx + 1
  /\ UNCHANGED <<flow, budget, date_in, videos, listed, tflow, last, succeeded, ncalls,
                 dateVars, listVars, extVars>>

\* The Streamlit flow keeps one match_details entry per match, with the
\* video's publish day, and before showing them sorts the entries by that
\* day, most recent first (list.sort is stable, also with reverse=True).
MatchDetail(v, match) ==
  [id |-> v.id, date |-> v.pub.t \div SecondsPerDay, matches |-> <<match>>]

MatchDetails(v, matches) == [k \in DOMAIN matches |-> MatchDetail(v, matches[k])]

InsertByDate(sorted, d) ==
  LET n == Cardinality({i \in DOMAIN sorted : sorted[i].date >= d.date})
  IN  SubSeq(sorted, 1, n) \o <<d>> \o SubSeq(sorted, n + 1, Len(sorted))

RECURSIVE SortFrom(_, _, _)
SortFrom(details, i, sorted) ==
  IF i > Len(details) THEN sorted
  ELSE SortFrom(details, i + 1, InsertByDate(sorted, details[i]))

SortByDateDesc(details) == SortFrom(details, 1, <<>>)

\* The Streamlit loop body: one fetch_transcript, a warning on
\* TranscriptFetchError; after the last video the entries are sorted.
ReqVideoUi ==
  /\ pc = "loop" /\ flow = "ui" /\ idx < Len(videos)
  /\ \E o \in ProviderOutcomes :
     \E r \in {fetch_transcript(tflow, cache, videos[idx + 1].id, o)} :
       LET v       == videos[idx + 1]
           matches == search_in_transcript(r.transcript, TheKeyword)
       IN  /\ cache' = r.cache
           /\ processed' = Append(processed,
                 Walked(v, IF r.ok THEN "ok" ELSE o.kind, r.transcript, r.requests))
           /\ results' =
                LET details == IF r.ok THEN results \o MatchDetails(v, matches)
                                       ELSE results
                IN  IF AfterVideo = "done" THEN SortByDateDesc(details) ELSE details
           /\ warnings' = IF r.ok THEN warnings ELSE Append(warnings, v.id)
  /\ pc' = AfterVideo
  /\ idx' = idx + 1
  /\ UNCHANGED <<flow, budget, date_in, videos, listed, tflow, last, succeeded, ncalls,
                 dateVars, listVars, extVars>>

-----------------------------------------------------------------------------
(***************************************************************************)
(* Channel resolver.  A channel reference is a sequence of characters      *)
(* ("LF" stands for a newline).  Flows: "app" is _extract_channel_id of    *)
(* src/app.py (and of the gradio copy), "backend" and "svc" are            *)
(* YouTubeService.resolve_channel_id of src/backend and of src/api (both   *)
(* copies of the latter).                                                  *)
(***************************************************************************)

Lowers ==
  {"a", "b", "c", "d", "e", "f", "g", "h", "i", "j", "k", "l", "m",
   "n", "o", "p", "q", "r", "s", "t", "u", "v", "w", "x", "y", "z"}
Uppers ==
  {"A", "B", "C", "D", "E", "F", "G", "H", "I", "J", "K", "L", "M",
   "N", "O", "P", "Q", "R", "S", "T", "U", "V", "W", "X", "Y", "Z"}
Digits == {"0", "1", "2", "3", "4", "5", "6", "7", "8", "9"}

\* [a-zA-Z0-9_-] and [a-zA-Z0-9_.-]
IdChars   == Lowers \cup Uppers \cup Digits \cup {"_", "-"}
NameChars == IdChars \cup {"."}

\* the {22} of the channel id patterns
IdBodyLen == 22

UC == <<"U", "C">>
YtCom == <<"y", "o", "u", "t", "u", "b", "e", ".", "c", "o", "m", "/">>
ChannelPath == YtCom \o <<"c", "h", "a", "n", "n", "e", "l", "/">>
HandlePath  == YtCom \o <<"@">>
CPath       == YtCom \o <<"c", "/">>
UserPath    == YtCom \o <<"u", "s", "e", "r", "/">>

NoId == [some |-> FALSE, v |-> <<>>]
SomeId(v) == [some |-> TRUE, v |-> v]

\* UC[a-zA-Z0-9_-]{22}
IsChannelId(t) ==
  /\ Len(t) = 2 + IdBodyLen /\ SubSeq(t, 1, 2) = UC
  /\ \A i \in 3..Len(t) : t[i] \in IdChars

\* re.match(r"^UC[a-zA-Z0-9_-]{22}$", s); `$` also matches right before a
\* newline that ends the string
MatchesDirectIdAlnum(s) ==
  /\ Len(s) = 2 + IdBodyLen /\ SubSeq(s, 1, 2) = UC
  /\ \A i \in 3..Len(s) : s[i] \in Lowers \cup Uppers \cup Digits
MatchesDirectId(s) ==
  \/ IsChannelId(s)
  \/ /\ Len(s) = 3 + IdBodyLen /\ s[Len(s)] = "LF"
     /\ IsChannelId(SubSeq(s, 1, Len(s) - 1))

StartsAt(s, literal, p) ==
  /\ p + Len(literal) - 1 <= Len(s)
  /\ SubSeq(s, p, p + Len(literal) - 1) = literal

Slice(s, p, n) == SubSeq(s, p, Min(Len(s), p + n - 1))

\* leftmost of the positions ps where a pattern matches, 0 if none
\* (re.search scans left to right)
FirstPos(ps) ==
  IF ps = {} THEN 0 ELSE CHOOSE p \in ps : \A q \in ps : p <= q

\* the longest run of name characters of s from position p on ([...]+ is greedy)
NameRun(s, p) ==
  LET n == CHOOSE k \in 0..(Len(s) - p + 1) :
             /\ \A j \in 0..(k - 1) : s[p + j] \in NameChars
             /\ (p + k <= Len(s) => s[p + k] \notin NameChars)
  IN  SubSeq(s, p, p + n - 1)

\* re.search(r"youtube\.com/channel/(UC[a-zA-Z0-9_-]{22})", s).group(1)
ChannelUrlWhole(s) ==
  LET At(p) == StartsAt(s, ChannelPath, p)
                 /\ IsChannelId(Slice(s, p + Len(ChannelPath), 2 + IdBodyLen))
      p == FirstPos({q \in 1..Len(s) : At(q)})
  IN  IF p = 0 THEN NoId
      ELSE SomeId(Slice(s, p, Len(ChannelPath) + 2 + IdBodyLen))
ChannelUrlId(s) ==
  LET At(p) == StartsAt(s, ChannelPath, p)
                 /\ IsChannelId(Slice(s, p + Len(ChannelPath), 2 + IdBodyLen))
      p == FirstPos({q \in 1..Len(s) : At(q)})
  IN  IF p = 0 THEN NoId
      ELSE SomeId(Slice(s, p + Len(ChannelPath), 2 + IdBodyLen))

\* the name after `literal` at its leftmost occurrence followed by a name
\* character
NameAfter(s, literal) ==
  LET At(p) == StartsAt(s, literal, p)
                 /\ p + Len(literal) <= Len(s)
                 /\ s[p + Len(literal)] \in NameChars
      p == FirstPos({q \in 1..Len(s) : At(q)})
  IN  IF p = 0 THEN NoId ELSE SomeId(NameRun(s, p + Len(literal)))

\* step 3: r"youtube\.com/@([a-zA-Z0-9_.-]+)" (app, backend), or
\* r"(?:youtube\.com/)?@([a-zA-Z0-9_.-]+)" (svc): the leftmost match of
\* the latter is at the leftmost "@" that a name character follows
HandleName(f, s) ==
  IF f = "svc" THEN NameAfter(s, <<"@">>) ELSE NameAfter(s, HandlePath)

\* step 4: r"youtube\.com/(?:c|user)/([a-zA-Z0-9_.-]+)"
CustomName(s) ==
  LET c == NameAfter(s, CPath)
      u == NameAfter(s, UserPath)
      At(literal, p) == StartsAt(s, literal, p) /\ p + Len(literal) <= Len(s)
                          /\ s[p + Len(literal)] \in NameChars
      AtC(p) == At(CPath, p)
      AtU(p) == At(UserPath, p)
  IN  IF ~c.some THEN u
      ELSE IF ~u.some THEN c
      ELSE IF FirstPos({q \in 1..Len(s) : AtC(q)}) < FirstPos({q \in 1..Len(s) : AtU(q)}) THEN c ELSE u

\* what search().list(q=name, type="channel", maxResults=1) answers
Found(id) == [kind |-> "found", id |-> id]
NoItems   == [kind |-> "none", id |-> <<>>]
Raises    == [kind |-> "raises", id |-> <<>>]

\* raised: "none", "config" (ValueError: API key not configured) or
\* "upstream" (YouTubeChannelError)
Resolved(id, lookups, query, raised) ==
  [id |-> id, lookups |-> lookups, query |-> query, raised |-> raised]

\* _resolve_name_to_channel_id_sync / _resolve_name_to_channel_id
resolve_name_unchecked(f, name, key_set, answer) ==
  CASE answer.kind = "found" -> Resolved(SomeId(answer.id), 1, name, "none")
    [] answer.kind = "none"  -> Resolved(NoId, 1, name, "none")
    [] OTHER -> Resolved(NoId, 1, name, IF f = "app" THEN "upstream" ELSE "none")
resolve_name(f, name, key_set, answer) ==
  IF f = "app" /\ ~key_set THEN Resolved(NoId, 0, name, "config")
  ELSE CASE answer.kind = "found" -> Resolved(SomeId(answer.id), 1, name, "none")
         [] answer.kind = "none"  -> Resolved(NoId, 1, name, "none")
         [] OTHER -> Resolved(NoId, 1, name,
                              IF f = "app" THEN "upstream" ELSE "none")

\* _extract_channel_id / resolve_channel_id
resolve_channel_id_reversed(f, s, key_set, answer) ==
  IF s = <<>> THEN Resolved(NoId, 0, <<>>, "none")
  ELSE IF MatchesDirectId(s) THEN Resolved(SomeId(s), 0, <<>>, "none")
  ELSE IF CustomName(s).some
    THEN resolve_name(f, CustomName(s).v, key_set, answer)
  ELSE IF HandleName(f, s).some
    THEN resolve_name(f, HandleName(f, s).v, key_set, answer)
  ELSE IF ChannelUrlId(s).some THEN Resolved(ChannelUrlId(s), 0, <<>>, "none")
  ELSE IF f = "svc" THEN resolve_name(f, s, key_set, answer)
  ELSE Resolved(NoId, 0, <<>>, "none")
resolve_channel_id(f, s, key_set, answer) ==
  IF s = <<>> THEN Resolved(NoId, 0, <<>>, "none")
  ELSE IF MatchesDirectId(s) THEN Resolved(SomeId(s), 0, <<>>, "none")
  ELSE IF ChannelUrlId(s).some THEN Resolved(ChannelUrlId(s), 0, <<>>, "none")
  ELSE IF HandleName(f, s).some
    THEN resolve_name(f, HandleName(f, s).v, key_set, answer)
  ELSE IF CustomName(s).some
    THEN resolve_name(f, CustomName(s).v, key_set, answer)
  ELSE IF f = "svc" THEN resolve_name(f, s, key_set, answer)
  ELSE Resolved(NoId, 0, <<>>, "none")

Rep(ch, n) == [i \in 1..n |-> ch]

\* Channel references: an id, a /channel/ URL, a handle, a custom URL or a
\* plain name, behind a prefix and before a suffix.
BodyAlpha == <<"a", "b", "c", "d", "e", "f", "g", "h", "i", "j", "k", "l", "m", "n", "o", "p", "q", "r", "s", "t", "u", "v">>
BodyMixed == <<"_", "-", "9", "Z">> \o Rep("b", IdBodyLen - 4)
BodyShort == Rep("a", IdBodyLen - 1)
BodyBad   == Rep("a", IdBodyLen - 1) \o <<"!">>
ChannelName == <<"t", "e", "d", ".", "x">>

RefCores ==
  {UC \o b : b \in {BodyAlpha, BodyMixed, BodyShort, BodyBad}}
    \cup {ChannelPath \o UC \o b : b \in {BodyAlpha, BodyMixed, BodyShort, BodyBad}}
    \cup {HandlePath \o ChannelName, <<"@">> \o ChannelName,
          CPath \o ChannelName, UserPath \o ChannelName, ChannelName, <<>>}
RefPrefixes == {<<>>, <<"h", "t", "t", "p", "s", ":", "/", "/", "w", "w", "w", ".">>, <<"x">>}
RefSuffixes == {<<>>, <<"Z">>, <<"/">>, <<"LF">>}
\* references that carry two forms at once
HandleText == <<"a", "b", "c">>
IdText == UC \o BodyAlpha
MixedRefs ==
  {HandlePath \o HandleText \o <<"/">> \o ChannelPath \o IdText,
   <<"@">> \o HandleText \o <<" ">> \o ChannelPath \o IdText,
   ChannelPath \o IdText \o <<"/">> \o HandlePath \o HandleText,
   CPath \o ChannelName \o <<"/">> \o ChannelPath \o IdText,
   UserPath \o ChannelName \o <<"?">> \o ChannelPath \o IdText,
   CPath \o ChannelName \o <<"/">> \o HandlePath \o HandleText,
   UserPath \o ChannelName \o <<"?">> \o <<"@">> \o HandleText,
   HandlePath \o HandleText \o <<"/">> \o CPath \o ChannelName}
ChannelRefs ==
  {p \o c \o x : p \in RefPrefixes, c \in RefCores, x \in RefSuffixes}
    \cup MixedRefs

LookupAnswers == {Found(UC \o BodyMixed), NoItems, Raises}

NoResolution == Resolved(NoId, 0, <<>>, "none")

ResolveIdle ==
  /\ rflow = "idle" /\ rinput = <<>> /\ rkey = FALSE /\ ranswer = NoItems
  /\ rout = NoResolution /\ rpc = "idle"

ResolveInit ==
  /\ rflow \in {"app", "backend", "svc"}
  /\ rinput \in ChannelRefs
  /\ rkey \in (IF rflow = "app" THEN BOOLEAN ELSE {TRUE})
  /\ ranswer \in LookupAnswers
  /\ rout = NoResolution /\ rpc = "call"

\* _extract_channel_id of src/app.py
ResolveApp ==
  /\ rpc = "call" /\ rflow = "app"
  /\ rout' = resolve_channel_id("app", rinput, rkey, ranswer)
  /\ rpc' = "returned"
  /\ UNCHANGED <<rflow, rinput, rkey, ranswer, dateVars, listVars, trVars, reqVars,
                 matchVars, frontVars>>

\* resolve_channel_id of src/backend
ResolveBackend ==
  /\ rpc = "call" /\ rflow = "backend"
  /\ rout' = resolve_channel_id("backend", rinput, rkey, ranswer)
  /\ rpc' = "returned"
  /\ UNCHANGED <<rflow, rinput, rkey, ranswer, dateVars, listVars, trVars, reqVars,
                 matchVars, frontVars>>

\* resolve_channel_id of src/api
ResolveSvc ==
  /\ rpc = "call" /\ rflow = "svc"
  /\ rout' = resolve_channel_id("svc", rinput, rkey, ranswer)
  /\ rpc' = "returned"
  /\ UNCHANGED <<rflow, rinput, rkey, ranswer, dateVars, listVars, trVars, reqVars,
                 matchVars, frontVars>>

-----------------------------------------------------------------------------
(***************************************************************************)
(* The entry of a search request: configuration, input checks, channel     *)
(* resolution, playlist location, listing, then the search loop as one     *)
(* step (Spec has it video by video).                                      *)
(***************************************************************************)

\* Bound: videos a listing hands over.
MaxFrontVideos == 2

\* `not api_key`
KeyFalsy(key) == key \in {"missing", "empty"}

\* HTTPException(status_code=400, ...) raised for an unresolved channel; the
\* vercel handler raises it inside its try and re-raises it as it is
InvalidChannelStatusWrapped(f) == IF f = "vercel" THEN 500 ELSE 400
InvalidChannelStatus(f) == 400

\* how a request ends; http is 0 where there is no HTTP response
Ended(f, kind) ==
  [kind |-> kind,
   http |-> CASE ~IsApi(f)                -> 0
              [] kind = "returned"        -> 200
              [] kind = "invalid_channel" -> InvalidChannelStatus(f)
              [] OTHER                    -> 500]

NoOutcomeYet == [kind |-> "none", http |-> 0]
NoCalls == [lookup |-> 0, channels |-> 0, playlist |-> 0, transcript |-> 0]

\* raised: the exception type, "none" on return; own: raised by a raise
\* statement of the function (and not by a failing subscript or call);
\* what: what its message names
Located(answer, raised, own, what) ==
  [answer |-> answer, raised |-> raised, own |-> own, what |-> what]
NotLocated == Located("none", "none", FALSE, "none")

\* fetch_playlist_id of src/app.py raises YouTubeChannelError for both
\* cases inside its try, whose `except Exception` wraps the message in a
\* YouTubeChannelError again; fetch_uploads_playlist_id raises ValueError
\* for no items and subscripts ["relatedPlaylists"]["uploads"] unguarded
fetch_playlist_id(f, answer) ==
  CASE answer = "ok" -> Located(answer, "none", FALSE, "none")
    [] answer = "no_channel" ->
         IF IsApi(f) THEN Located(answer, "ValueError", TRUE, "no_channel")
         ELSE Located(answer, "YouTubeChannelError", TRUE, "no_channel")
    [] answer = "no_uploads" ->
         IF IsApi(f) THEN Located(answer, "KeyError", FALSE, "uploads")
         ELSE Located(answer, "YouTubeChannelError", TRUE, "no_uploads")
    [] OTHER ->
         IF IsApi(f) THEN Located(answer, "HttpError", FALSE, "api")
         ELSE Located(answer, "YouTubeChannelError", TRUE, "api")

FrontRefs ==
  {<<>>, UC \o BodyAlpha, ChannelPath \o UC \o BodyMixed,
   HandlePath \o ChannelName, ChannelName}

\* the date inputs of a request; only process_channel_search checks them
FrontDates(f) ==
  IF f = "pcs" THEN {DateIn(a, b) : a \in AppDates, b \in AppDates}
               ELSE {DateIn(NoDate, NoDate)}

\* `if not start_date or not end_date` and `if start_date > end_date`, the
\* end date moved to 23:59:59
dates_accepted(f, dates) ==
  f = "pcs" => pcs_filter(<<>>, dates.start, dates.end).status # "rejected"

\* the message a run of process_channel_search ends with
Message(kind) ==
  CASE kind = "returned"  -> "results"
    [] kind = "no_videos" -> "info"
    [] OTHER              -> "error"

\* what the generator yields when the run ends: the message alone; what
\* `results` holds by then is dropped unless the run returns the list.  The
\* other handlers return or raise, they yield nothing.
final_messages_flushing(f, kind, partial) ==
  IF f # "pcs" THEN <<>>
  ELSE IF partial /\ kind # "returned" THEN <<"results", Message(kind)>>
  ELSE <<Message(kind)>>
final_messages(f, kind, partial) ==
  IF f = "pcs" THEN <<Message(kind)>> ELSE <<>>

FrontIdle ==
  /\ fflow = "idle" /\ api_key = "missing" /\ channel_url = <<>>
  /\ keyword_given = FALSE /\ dates_valid = FALSE /\ fpc = "idle"
  /\ fdates = DateIn(NoDate, NoDate)
  /\ channel_id = NoId /\ fvideos = 0 /\ calls = NoCalls
  /\ outcome = NoOutcomeYet /\ listing_failed = FALSE
  /\ located = NotLocated /\ yielded = <<>> /\ fwarned = 0

FrontInit ==
  /\ fflow \in {"router", "vercel", "pcs", "ui"}
  /\ api_key \in {"missing", "empty", "blank", "set"}
  /\ channel_url \in FrontRefs
  /\ keyword_given \in BOOLEAN
  /\ fdates \in FrontDates(fflow)
  /\ dates_valid = dates_accepted(fflow, fdates)
  /\ fpc = (IF fflow = "pcs" THEN "validate" ELSE "config")
  /\ channel_id = NoId /\ fvideos = 0 /\ calls = NoCalls
  /\ outcome = NoOutcomeYet /\ listing_failed = FALSE
  /\ located = NotLocated /\ yielded = <<>> /\ fwarned = 0

\* the run ends after `said` has been yielded; partial: `results` is not
\* empty
EndSaying(said, kind, partial) ==
  /\ fpc' = "done" /\ outcome' = Ended(fflow, kind)
  /\ yielded' = said \o final_messages(fflow, kind, partial)
End(kind) == EndSaying(yielded, kind, FALSE)

\* get_yt_service (router), the two key checks of the vercel handler, the
\* sidebar check of the Streamlit script
FrontConfig ==
  /\ fpc = "config"
  /\ IF KeyFalsy(api_key) \/ (fflow = "vercel" /\ api_key = "blank")
       THEN End("config_error")
       ELSE /\ fpc' = (IF fflow = "ui" THEN "validate" ELSE "resolve")
            /\ UNCHANGED <<outcome, yielded>>
  /\ UNCHANGED <<located, fflow, api_key, channel_url, keyword_given, dates_valid, fdates,
                 channel_id, fvideos, calls, listing_failed>>
  /\ UNCHANGED <<fwarned, dateVars, listVars, trVars, reqVars, matchVars, resolveVars>>

\* the input checks of process_channel_search and of the Streamlit script
InputsAcceptedAnyDates(f, kw, ref, dates) == kw /\ ref # <<>>
InputsAccepted(f, kw, ref, dates) == kw /\ ref # <<>> /\ dates

\* process_channel_search yields its status message before it checks anything
Started(f, said) == IF f = "pcs" THEN Append(said, "status") ELSE said

FrontValidate ==
  /\ fpc = "validate"
  /\ IF InputsAccepted(fflow, keyword_given, channel_url, dates_valid)
       THEN /\ fpc' = "resolve" /\ yielded' = Started(fflow, yielded)
            /\ UNCHANGED outcome
       ELSE EndSaying(Started(fflow, yielded), "input_rejected", FALSE)
  /\ UNCHANGED <<located, fflow, api_key, channel_url, keyword_given, dates_valid, fdates,
                 channel_id, fvideos, calls, listing_failed>>
  /\ UNCHANGED <<fwarned, dateVars, listVars, trVars, reqVars, matchVars, resolveVars>>

ResolverOf(f) == IF IsApi(f) THEN "svc" ELSE "app"

\* the resolution step and what the handler does with None or an exception
FrontResolve ==
  /\ fpc = "resolve"
  /\ \E answer \in LookupAnswers :
     \E r \in {resolve_channel_id(ResolverOf(fflow), channel_url,
                                  ~KeyFalsy(api_key), answer)} :
       /\ calls' = [calls EXCEPT !.lookup = @ + r.lookups]
       /\ channel_id' = r.id
       /\ CASE r.raised = "config"   -> End("config_error")
            [] r.raised = "upstream" -> End("upstream_error")
            [] ~r.id.some            -> End("invalid_channel")
            [] OTHER                 -> fpc' = "locate" /\ UNCHANGED <<outcome, yielded>>
  /\ UNCHANGED <<located, fflow, api_key, channel_url, keyword_given, dates_valid, fdates,
                 fvideos, listing_failed>>
  /\ UNCHANGED <<fwarned, dateVars, listVars, trVars, reqVars, matchVars, resolveVars>>

\* fetch_playlist_id / fetch_uploads_playlist_id: channels().list answers
\* with the uploads playlist, with no item, with no uploads playlist, or fails
LocateAnswers == {"ok", "no_channel", "no_uploads", "error"}

FrontLocate ==
  /\ fpc = "locate"
  /\ IF ~IsApi(fflow) /\ KeyFalsy(api_key)
       THEN End("config_error") /\ UNCHANGED <<calls, located>>
       ELSE \E answer \in LocateAnswers :
              /\ calls' = [calls EXCEPT !.channels = @ + 1]
              /\ located' = fetch_playlist_id(fflow, answer)
              /\ IF located'.raised = "none"
                   THEN fpc' = "list" /\ UNCHANGED <<outcome, yielded>>
                   ELSE End("upstream_error")
  /\ UNCHANGED <<fflow, api_key, channel_url, keyword_given, dates_valid, fdates,
                 channel_id, fvideos, listing_failed>>
  /\ UNCHANGED <<fwarned, dateVars, listVars, trVars, reqVars, matchVars, resolveVars>>

\* the listing returns n videos
FrontList ==
  /\ fpc = "list"
  /\ \E n \in 0..MaxFrontVideos :
       /\ fvideos' = n
       /\ IF n = 0 /\ fflow # "router"
            THEN End(IF fflow = "vercel" THEN "returned" ELSE "no_videos")
            ELSE fpc' = "search" /\ UNCHANGED <<outcome, yielded>>
  /\ calls' = [calls EXCEPT !.playlist = @ + 1]
  /\ UNCHANGED <<located, fflow, api_key, channel_url, keyword_given, dates_valid, fdates,
                 channel_id, listing_failed>>
  /\ UNCHANGED <<fwarned, dateVars, listVars, trVars, reqVars, matchVars, resolveVars>>

\* what the handler gets when a page fetch fails for good with `have` items
\* accumulated: the exception, or (vercel: `except Exception: break`) the
\* items
ListingFailure(f, have) ==
  IF f = "vercel" THEN [raised |-> FALSE, videos |-> have]
                  ELSE [raised |-> TRUE, videos |-> 0]

FrontListFails ==
  /\ fpc = "list"
  /\ \E have \in 0..(MaxFrontVideos - 1) :
       LET got == ListingFailure(fflow, have)
       IN  /\ fvideos' = got.videos
           /\ IF got.raised THEN End("upstream_error")
              ELSE IF got.videos = 0 THEN End("returned")
              ELSE fpc' = "search" /\ UNCHANGED <<outcome, yielded>>
  /\ calls' = [calls EXCEPT !.playlist = @ + 1]
  /\ listing_failed' = TRUE
  /\ UNCHANGED <<located, fflow, api_key, channel_url, keyword_given, dates_valid, fdates, channel_id>>
  /\ UNCHANGED <<fwarned, dateVars, listVars, trVars, reqVars, matchVars, resolveVars>>

\* The date filter keeps `kept` of the listed videos and, in the app flows,
\* puts a warning into `results` for each of `warned` others; with nothing
\* kept the app flows end with a message and the API returns [].  Then the
\* search loop: a transcript fetch per video kept, and the result list.
FrontSearch ==
  /\ fpc = "search"
  /\ \E kept \in 0..fvideos :
     \E warned \in 0..(IF IsApi(fflow) THEN 0 ELSE fvideos - kept) :
       /\ fwarned' = warned
       /\ calls' = [calls EXCEPT !.transcript = @ + kept]
       /\ IF kept = 0 /\ ~IsApi(fflow)
            THEN EndSaying(yielded, "no_videos", warned > 0)
            ELSE EndSaying(yielded, "returned", warned > 0)
  /\ UNCHANGED <<located, fflow, api_key, channel_url, keyword_given, dates_valid, fdates,
                 channel_id, fvideos, listing_failed>>
  /\ UNCHANGED <<dateVars, listVars, trVars, reqVars, matchVars, resolveVars>>

-----------------------------------------------------------------------------
(***************************************************************************)
(* Specifications.                                                         *)
(***************************************************************************)

CoreIdle == DateIdle /\ ListIdle /\ TrIdle /\ ReqIdle
ExtIdle == MatchIdle /\ ResolveIdle /\ FrontIdle

\* the transcript came from fetch_transcript of src/app.py, which cached it
\* under its video id, or from a fetcher without a cache
MatchCache ==
  /\ tflow = "idle" /\ last = NoCall /\ succeeded = EmptyCache /\ ncalls = 0
  /\ cache \in (IF mflow = "app"
                  THEN {EmptyCache, CachePut(EmptyCache, 1, mtranscript)}
                  ELSE {EmptyCache})
InitMatch ==
  /\ MatchInit /\ MatchCache
  /\ DateIdle /\ ListIdle /\ ReqIdle /\ ResolveIdle /\ FrontIdle
NextMatch == MatchApp \/ MatchGradio
SpecMatch == InitMatch /\ [][NextMatch]_vars

InitResolve == ResolveInit /\ CoreIdle /\ MatchIdle /\ FrontIdle

InitFront == FrontInit /\ CoreIdle /\ MatchIdle /\ ResolveIdle
NextFront ==
  \/ FrontConfig \/ FrontValidate \/ FrontResolve \/ FrontLocate
  \/ FrontList \/ FrontListFails \/ FrontSearch
SpecFront == InitFront /\ [][NextFront]_vars
NextResolve == ResolveApp \/ ResolveBackend \/ ResolveSvc
SpecResolve == InitResolve /\ [][NextResolve]_vars

InitDate == DateInit /\ ListIdle /\ TrIdle /\ ReqIdle /\ ExtIdle
NextDate == FilterPcs \/ FilterUi \/ FilterApi
SpecDate == InitDate /\ [][NextDate]_vars

InitList == ListInit /\ DateIdle /\ TrIdle /\ ReqIdle /\ ExtIdle
NextList == ListSkip \/ ListPage \/ ListPageFails
SpecList == InitList /\ [][NextList]_vars
\* The loop is sequential code: while it has not returned or raised, its
\* next page request is issued and is answered or fails.
SpecListLive == SpecList /\ WF_vars(NextList)

InitTr == TrInit /\ DateIdle /\ ListIdle /\ ReqIdle /\ ExtIdle
NextTr ==
  \/ \E v \in TrVideoIds : CallFetchTranscript(v)
  \/ \E v \in TrVideoIds : CallProcessSingleVideo(v)
SpecTr == InitTr /\ [][NextTr]_vars

Init == ReqInit /\ DateIdle /\ ListIdle /\ ExtIdle
Next ==
  \/ ReqReject \/ ReqList \/ ReqListFails \/ ReqFilter
  \/ ReqVideoApi \/ ReqVideoPcs \/ ReqVideoUi
Spec == Init /\ [][Next]_vars

-----------------------------------------------------------------------------
(***************************************************************************)
(* Properties of a search request (Spec).                                  *)
(***************************************************************************)

ResultIds == {results[k].id : k \in DOMAIN results}

\* C1: a transcript fetch failure for one video never stops the batch: the
\* request goes on (or returns) after it, every video of the list is walked
\* and its transcript asked for, and every video whose transcript was
\* fetched and holds the keyword is in the returned results.
C1_FailureDoesNotStopBatch ==
  /\ (processed # <<>> /\ ~processed[Len(processed)].fetched)
       => pc \in {"loop", "done"}
  /\ pc = "done" =>
       /\ Len(processed) = Len(videos)
       /\ \A i \in DOMAIN videos :
            processed[i].id = videos[i].id /\ processed[i].requests >= 1
       /\ \A i \in DOMAIN processed :
            processed[i].hit => processed[i].id \in ResultIds

\* A returned request in which a video failed and a later one matched.
C1_Witness ==
  /\ pc = "done"
  /\ \E i, j \in DOMAIN processed :
       /\ i < j /\ ~processed[i].fetched
       /\ processed[j].hit /\ processed[j].id \in ResultIds

\* C2: every result in the list has a non-empty matches list; a video with
\* zero matches, an empty transcript or a failed fetch is not in the list.
C2_ResultsHaveMatches ==
  /\ \A k \in DOMAIN results : results[k].matches # <<>>
  /\ \A i \in DOMAIN processed :
       ~processed[i].hit => processed[i].id \notin ResultIds

\* A returned list with a result, next to a video that had no match.
C2_Witness ==
  /\ pc = "done" /\ results # <<>>
  /\ \E i \in DOMAIN processed : processed[i].fetched /\ ~processed[i].hit

\* C3: in a request with a date bound, neither the number of videos whose
\* transcript is fetched nor the number of results exceeds max_videos.
C3_TruncatedToBudget ==
  (date_in.start.kind # "none" \/ date_in.end.kind # "none")
    => Len(processed) <= budget /\ Len(results) <= budget

\* position of the video an entry of the result list is for
PosInVideos(k) == CHOOSE i \in DOMAIN videos : videos[i].id = results[k].id

\* C14: the list a search returns is a subsequence of the filtered video
\* list: every entry is for a listed video, entries follow the order of the
\* listing, at most one entry per video.
C14_ResultsInListingOrder ==
  pc = "done" =>
    /\ \A k \in DOMAIN results : results[k].id \in {videos[i].id : i \in DOMAIN videos}
    /\ \A k, l \in DOMAIN results : k < l => PosInVideos(k) < PosInVideos(l)

\* C15: no condition confined to one listed video makes the request fail:
\* the request never fails while a result is built for a video, and the
\* date filter fails the request only for the date bound it was given.
C15_PerVideoNeverFatal ==
  /\ pc \notin {"failed_transcript", "failed_result"}
  /\ pc = "failed_filter" => \A i \in DOMAIN listed : listed[i].pub.kind # "none"

-----------------------------------------------------------------------------
(***************************************************************************)
(* Properties of the lister (SpecList).                                    *)
(***************************************************************************)

\* C4: the lister returns at most max_videos items; when the pages fetched
\* hold more, the result is the first max_videos of them.
C4_AtMostBudget ==
  lpc = "returned" =>
    /\ Len(lresult) <= max_videos
    /\ \A i \in DOMAIN lresult : lresult[i] = all_details[i]
    /\ Len(all_details) >= max_videos => Len(lresult) = max_videos

\* The last page overshot a positive budget and the result was cut.
C4_Witness ==
  /\ lpc = "returned" /\ max_videos > 0
  /\ Len(all_details) > max_videos /\ Len(lresult) = max_videos

\* C5: after a failed page fetch the loop asks for the same page again, a
\* page is tried at most RETRY_ATTEMPTS times in a row, and the listing
\* fails, rather than returning a list, when the last of them fails.
C5_RetrySamePage ==
  /\ last_req.streak <= RETRY_ATTEMPTS
  /\ (~last_req.ok /\ lpc = "loop") => next_page_token = last_req.token
  /\ lpc = "raised" => last_req.streak = RETRY_ATTEMPTS
  /\ lpc = "returned" => last_req.ok
  /\ \A i, j \in DOMAIN all_details : i < j => all_details[i].id < all_details[j].id

\* C27: an item that lacks a field the listing reads (video id, publish
\* timestamp) is dropped: it is never in the accumulated list nor in the
\* list returned, and the page that carries it does not fail the listing.
C27_IncompleteItemsDropped ==
  /\ \A i \in DOMAIN all_details : IsComplete(all_details[i])
  /\ \A i \in DOMAIN lresult : IsComplete(lresult[i])

\* a page request is issued in this step
PageRequest == ListPage \/ ListPageFails

\* C28: a page is requested only while fewer than max_videos items are
\* accumulated (so never with max_videos = 0) and never after a response
\* that carried no continuation token.
C28_RequestOnlyWhileNeeded ==
  [][PageRequest =>
       /\ Len(all_details) < max_videos
       /\ (last_req # NoRequest /\ last_req.ok) => next_page_token # NoToken]_vars

-----------------------------------------------------------------------------
(***************************************************************************)
(* Properties of the transcript fetcher and its cache (SpecTr).            *)
(***************************************************************************)

NewCall == ncalls' = ncalls + 1

\* C6: while one video is processed the provider is asked for the
\* transcript at most RETRY_ATTEMPTS times, and only an unexpected failure
\* is followed by another attempt: disabled and not-found end the
\* processing at once.
C6_RetryOnlyUnexpected ==
  last.op = "process" =>
    /\ Len(last.outcomes) <= RETRY_ATTEMPTS
    /\ \A k \in 1..(Len(last.outcomes) - 1) : last.outcomes[k] = "error"

\* C7: once a provider fetch for a video has succeeded, every later call
\* for that video returns that transcript without asking the provider.
C7_CachedAfterSuccess ==
  [][\A v \in DOMAIN succeeded :
       (NewCall /\ last'.id = v)
         => (last'.ok /\ last'.requests = 0 /\ last'.transcript = succeeded[v])]_vars

\* A later call for a video fetched before, answered from the cache.
C7_Witness ==
  /\ ncalls >= 2 /\ last.id \in DOMAIN succeeded
  /\ last.ok /\ last.requests = 0 /\ last.transcript # <<>>

\* C8: the cache holds an entry only for a video a provider fetch succeeded
\* for; a failed call leaves the cache as it was, with no entry for its
\* video; and the call that follows a failure for the same video asks the
\* provider again.
C8_FailuresNotCached ==
  /\ [](\A v \in DOMAIN cache : v \in DOMAIN succeeded /\ cache[v] = succeeded[v])
  /\ [][(NewCall /\ ~last'.ok)
          => (cache' = cache /\ last'.id \notin DOMAIN cache')]_vars
  /\ [](last.after_failure => last.requests >= 1)

\* A call right after a failed call for the same video, with another
\* video's transcript still cached.
C8_Witness ==
  /\ last.after_failure /\ last.requests >= 1
  /\ \E v \in DOMAIN cache : v # last.id

\* C31: the cache never holds an empty transcript: when the provider
\* yields no segments for a video nothing is stored for it.
C31_NoEmptyTranscriptCached ==
  \A v \in DOMAIN cache : cache[v] # <<>>

\* C35: an entry of the cache is never removed nor replaced by another
\* transcript, whatever fetch_transcript and _process_single_video calls
\* follow: the cache only grows.
C35_CacheOnlyGrows ==
  [][\A v \in DOMAIN cache : v \in DOMAIN cache' /\ cache'[v] = cache[v]]_vars

\* Two videos cached, then a call answered from the cache.
C35_Witness ==
  /\ Cardinality(DOMAIN cache) = 2 /\ ncalls = 3
  /\ last.ok /\ last.requests = 0 /\ last.transcript # <<>>

-----------------------------------------------------------------------------
(***************************************************************************)
(* Properties of the date filter (SpecDate).                               *)
(***************************************************************************)

Kept(v) == v \in Range(dout.filtered)

\* C9: with both bounds given, the filter keeps a video iff
\* start 00:00:00 UTC <= publishedAt <= end 23:59:59 UTC, in pcs and ui.
C9_InclusiveWindow ==
  (dflow \in {"pcs", "ui"} /\ dout.status = "ok"
     /\ dstart.kind = "day" /\ dend.kind = "day")
    => \A i \in DOMAIN dvideos :
         Parses(dvideos[i]) =>
           (Kept(dvideos[i]) <=>
              /\ dstart.v * SecondsPerDay <= dvideos[i].pub.t
              /\ dvideos[i].pub.t <= dend.v * SecondsPerDay + (SecondsPerDay - 1))

\* the date bounds make the flow's filter run
FilterRuns ==
  CASE dflow = "pcs"              -> dout.status = "ok"
    [] dflow = "ui"               -> dout.status = "ok"
    [] dflow \in {"router", "vercel"} -> dout.status # "none" /\ dstart.kind = "aware"
    [] OTHER                      -> FALSE

\* C10: a video whose publish timestamp does not parse is left out of the
\* filtered list and recorded as a warning; it does not fail the request
\* and the other videos pass or fail the filter as they would without it.
C10_UnparsableSkipped ==
  FilterRuns =>
    \A i \in DOMAIN dvideos :
      Unparsable(dvideos[i]) =>
        /\ dout.status # "error"
        /\ ~Kept(dvideos[i])
        /\ dvideos[i].id \in Range(dout.warnings)
        /\ \A j \in DOMAIN dvideos :
             Parses(dvideos[j]) =>
               (Kept(dvideos[j]) <=>
                  dvideos[j] \in Range(date_filter(dflow,
                       SelectSeq(dvideos, Parses), DateIn(dstart, dend),
                       dbudget).filtered))

\* the instant a start bound stands for, and the last instant of an end day
StartInstant(bound) ==
  IF bound.kind = "day" THEN bound.v * SecondsPerDay ELSE bound.v
EndInstant(bound) == bound.v * SecondsPerDay + (SecondsPerDay - 1)

\* C26: with the start bound or the end bound absent (and the other one, if
\* given, well-formed) the filter still runs, and it keeps exactly the
\* videos that satisfy the bound that is present: an absent bound limits
\* nothing.  (Listings whose timestamps all parse; for the API filter,
\* listings the budget does not cut.)
C26_AbsentBoundUnbounded ==
  ( /\ dout.status # "none"
    /\ dstart.kind = "none" \/ dend.kind = "none"
    /\ dstart.kind \in {"none", "day", "aware"}
    /\ dend.kind \in {"none", "day"}
    /\ \A i \in DOMAIN dvideos : Parses(dvideos[i])
    /\ IsApi(dflow) => Len(dvideos) <= dbudget )
    => /\ dout.status = "ok"
       /\ \A i \in DOMAIN dvideos :
            Kept(dvideos[i]) <=>
              /\ dstart.kind = "none" \/ dvideos[i].pub.t >= StartInstant(dstart)
              /\ dend.kind = "none" \/ dvideos[i].pub.t <= EndInstant(dend)

-----------------------------------------------------------------------------
(***************************************************************************)
(* Properties of the keyword matcher (SpecMatch).                          *)
(***************************************************************************)

SameLetter(a, b) == a = b \/ {a, b} \in {{"A", "a"}, {"B", "b"}}

\* keyword occurs in text, letter case ignored
OccursIn(keyword, text) ==
  \E k \in 0..(Len(text) - Len(keyword)) :
     \A j \in 1..Len(keyword) : SameLetter(keyword[j], text[k + j])

\* the returned list holds a match for the segment at position i
HitAt(i) == \E k \in DOMAIN mmatches : mmatches[k].start = mtranscript[i].start

\* C11: the matcher returns an empty list whenever the keyword is the empty
\* string or the transcript is empty.
C11_EmptyInputNoMatch ==
  (mpc = "returned" /\ (mkeyword = <<>> \/ mtranscript = <<>>))
    => mmatches = <<>>

\* C12: search_in_transcript of src/app.py and of the API services emits a
\* hit for the segment at position i iff the keyword, letter case ignored,
\* occurs within that segment's text alone.
C12_HitIffInSegment ==
  (mpc = "returned" /\ mflow = "app")
    => \A i \in DOMAIN mtranscript :
         HitAt(i) <=> OccursIn(mkeyword, mtranscript[i].text)

\* A keyword that occurs across the boundary of two segments without a hit
\* there, and in another segment's text in another letter case with a hit.
C12_Witness ==
  /\ mpc = "returned" /\ mflow = "app" /\ Len(mkeyword) = 2
  /\ \E i \in 1..(Len(mtranscript) - 1) :
       /\ OccursIn(mkeyword, mtranscript[i].text \o mtranscript[i + 1].text)
       /\ ~HitAt(i) /\ ~HitAt(i + 1)
  /\ \E i \in DOMAIN mtranscript :
       HitAt(i) /\ mtranscript[i].text # mkeyword

\* C13: every emitted match carries start and text of its segment,
\* context_before = the text of the segment before it ("" for the first)
\* and context_after = the text of the segment after it ("" for the last).
C13_MatchContext ==
  mpc = "returned" =>
    \A k \in DOMAIN mmatches :
      \E i \in DOMAIN mtranscript :
        /\ mmatches[k].start = mtranscript[i].start
        /\ mmatches[k].text = mtranscript[i].text
        /\ {"context_before", "context_after"} \subseteq DOMAIN mmatches[k]
        /\ mmatches[k].context_before =
             (IF i = 1 THEN <<>> ELSE mtranscript[i - 1].text)
        /\ mmatches[k].context_after =
             (IF i = Len(mtranscript) THEN <<>> ELSE mtranscript[i + 1].text)

\* C29: the matches come in transcript order, one per matching segment:
\* their segment positions (the start times) strictly increase and there
\* are as many matches as segments with a hit.
C29_MatchesInTranscriptOrder ==
  mpc = "returned" =>
    /\ \A k \in 1..(Len(mmatches) - 1) : mmatches[k].start < mmatches[k + 1].start
    /\ \A k \in DOMAIN mmatches :
         \E i \in DOMAIN mtranscript : mmatches[k].start = mtranscript[i].start
    /\ Len(mmatches) = Cardinality({i \in DOMAIN mtranscript : HitAt(i)})

\* Hits in the first and the last of three segments, none in the middle one.
C29_Witness ==
  /\ mpc = "returned" /\ mflow = "app" /\ Len(mtranscript) = 3
  /\ Len(mmatches) = 2 /\ ~HitAt(2)
  /\ mmatches[1].start = mtranscript[1].start
  /\ mmatches[2].start = mtranscript[3].start

-----------------------------------------------------------------------------
(***************************************************************************)
(* Properties of the channel resolver (SpecResolve).                       *)
(***************************************************************************)

\* `UC` followed by 22 characters of [A-Za-z0-9_-], starting at position p of s
IdAt(s, p) ==
  /\ p + 23 <= Len(s) /\ s[p] = "U" /\ s[p + 1] = "C"
  /\ \A i \in (p + 2)..(p + 23) : s[i] \in IdChars

\* C19: an input that is exactly UC + 22 URL-safe characters resolves to
\* itself and no name lookup is made.
C19_DirectIdResolvesToItself ==
  (rpc = "returned" /\ Len(rinput) = 24 /\ IdAt(rinput, 1))
    => /\ rout.id = SomeId(rinput)
       /\ rout.lookups = 0 /\ rout.raised = "none"

\* A direct id with `_` and `-` in it, given to the resolver that falls
\* back to a name lookup.
C19_Witness ==
  /\ rpc = "returned" /\ rflow = "svc" /\ rinput = UC \o BodyMixed
  /\ rout.id = SomeId(rinput) /\ rout.lookups = 0

\* C20: an input containing youtube.com/channel/ followed by a UC id
\* resolves to exactly that id (the one of the leftmost such place) and no
\* name lookup is made.
C20_ChannelUrlResolvesToId ==
  rpc = "returned" =>
    \A p \in 1..Len(rinput) :
      ( /\ StartsAt(rinput, ChannelPath, p) /\ IdAt(rinput, p + 20)
        /\ \A q \in 1..(p - 1) :
             ~(StartsAt(rinput, ChannelPath, q) /\ IdAt(rinput, q + 20)) )
      => /\ rout.id = SomeId(SubSeq(rinput, p + 20, p + 43))
         /\ rout.lookups = 0 /\ rout.raised = "none"

\* https://www.youtube.com/channel/UCabcdefghijklmnopqrstuv
C20_Witness ==
  /\ rpc = "returned"
  /\ rinput = <<"h", "t", "t", "p", "s", ":", "/", "/", "w", "w", "w", ".">> \o ChannelPath \o UC \o BodyAlpha
  /\ rout.id = SomeId(UC \o BodyAlpha) /\ rout.lookups = 0

\* `@` followed by name characters and nothing else
BareHandle(s) ==
  /\ Len(s) >= 2 /\ s[1] = "@"
  /\ \A i \in 2..Len(s) : s[i] \in NameChars

\* what the resolver returns when it hands back the lookup's answer
LookupOutcome ==
  IF ranswer.kind = "found" THEN SomeId(ranswer.id) ELSE NoId

\* C21: for the bare handle input @somehandle the resolver makes exactly one
\* name lookup, with the handle without its @ as the query, and returns what
\* the lookup returned.
C21_BareHandleLookedUp ==
  (rpc = "returned" /\ BareHandle(rinput))
    => /\ rout.lookups = 1 /\ rout.query = Tail(rinput)
       /\ rout.raised = "none" /\ rout.id = LookupOutcome

HasDirectId(s) ==
  \/ Len(s) = 24 /\ IdAt(s, 1)
  \/ Len(s) = 25 /\ IdAt(s, 1) /\ s[25] = "LF"
HasChannelUrl(s) ==
  \E p \in 1..Len(s) : StartsAt(s, ChannelPath, p) /\ IdAt(s, p + 20)
NameFollows(s, literal) ==
  \E p \in 1..Len(s) :
    /\ StartsAt(s, literal, p) /\ p + Len(literal) <= Len(s)
    /\ s[p + Len(literal)] \in NameChars
HasHandle(s) == NameFollows(s, <<"@">>)
HasVanity(s) == NameFollows(s, CPath) \/ NameFollows(s, UserPath)

\* C22: a non-empty input that matches no id, /channel/ URL, handle or
\* vanity-URL pattern is resolved by one name lookup whose query is the
\* whole input.
C22_FallbackLooksUpWholeInput ==
  ( /\ rpc = "returned" /\ rinput # <<>>
    /\ ~HasDirectId(rinput) /\ ~HasChannelUrl(rinput)
    /\ ~HasHandle(rinput) /\ ~HasVanity(rinput) )
    => rout.lookups = 1 /\ rout.query = rinput

\* C23: the patterns are tried in the order id, /channel/ URL, handle,
\* vanity URL: an input with a /channel/ URL and also a handle or a vanity
\* form resolves to the id of the URL with no lookup, and an input with a
\* handle and a vanity form (and no /channel/ URL) is looked up by the
\* handle.
C23_FirstPatternWins ==
  (rpc = "returned" /\ ~HasDirectId(rinput)) =>
    /\ ( /\ HasChannelUrl(rinput)
         /\ (HandleName(rflow, rinput).some \/ HasVanity(rinput)) )
         => /\ rout.id = ChannelUrlId(rinput) /\ rout.id.some
            /\ rout.lookups = 0 /\ rout.raised = "none"
    /\ ( /\ ~HasChannelUrl(rinput)
         /\ HandleName(rflow, rinput).some /\ HasVanity(rinput) )
         => /\ rout.query = HandleName(rflow, rinput).v
            /\ (rout.lookups = 1 \/ rout.raised = "config")

\* youtube.com/c/ted.x/youtube.com/@abc: the vanity form comes first in the
\* text, the handle is what gets looked up.
C23_Witness ==
  /\ rpc = "returned"
  /\ rinput = CPath \o ChannelName \o <<"/">> \o HandlePath \o HandleText
  /\ rout.lookups = 1 /\ rout.query = HandleText

\* C24: when the channel search yields no items or the remote call fails,
\* the name lookup returns nothing found and raises nothing; only a missing
\* API key is raised to the caller.
C24_LookupSwallowsFailures ==
  rpc = "returned" =>
    /\ (rout.lookups = 1 /\ ranswer.kind \in {"none", "raises"})
         => rout.id = NoId /\ rout.raised = "none"
    /\ rout.raised # "none" => (rout.raised = "config" /\ ~rkey)

-----------------------------------------------------------------------------
(***************************************************************************)
(* Properties of the entry of a request (SpecFront).                       *)
(***************************************************************************)

C17_UnresolvedIsClientError ==
  (IsApi(fflow) /\ fpc \notin {"config", "resolve"} /\ ~channel_id.some
     /\ outcome.kind # "config_error")
    => /\ fpc = "done" /\ outcome.http = 400
       /\ calls.channels = 0 /\ calls.playlist = 0 /\ calls.transcript = 0

\* A plain name the lookup finds nothing for, in the vercel handler.
C17_Witness ==
  /\ fflow = "vercel" /\ fpc = "done" /\ channel_url = ChannelName
  /\ calls.lookup = 1 /\ ~channel_id.some /\ outcome.http = 400

\* C18: when playlist location or the listing fails, the request ends in an
\* upstream failure and returns no result list.
C18_ListingFailureIsFatal ==
  fpc = "done" =>
    /\ listing_failed => outcome.kind = "upstream_error"
    /\ (calls.channels > 0 /\ calls.playlist = 0) => outcome.kind = "upstream_error"

\* C25: locating the uploads playlist returns it when the channel record
\* carries one, fails with a channel-not-found error when there is no
\* channel record, and fails with an error of its own that names the
\* missing uploads playlist when the record lacks it.
C25_LocateErrorsAreTyped ==
  located.answer # "none" =>
    /\ (located.answer = "ok") <=> (located.raised = "none")
    /\ located.answer = "no_channel"
         => located.own /\ located.what = "no_channel"
    /\ located.answer = "no_uploads"
         => located.own /\ located.what = "no_uploads"

\* C33: every result of an API search called with a published_after that
\* parses belongs to a listed video whose publish timestamp parses and is at
\* or after the cutoff, whatever the listing holds.
C33_ResultsNotBeforeCutoff ==
  (IsApi(flow) /\ date_in.start.kind \in {"aware", "naive"}) =>
    \A r \in DOMAIN results :
      LET v == listed[results[r].id]
      IN  v.pub.kind = "utc" /\ v.pub.t >= date_in.start.v

\* C34: the listing loop terminates, by returning a list or by raising,
\* whatever pages the playlist serves and whichever requests fail.
C34_ListingTerminates ==
  <>(lpc \in {"returned", "raised"})

\* The loop of fetch_all_video_details gave up after pages that came with a
\* continuation token and whose items were all dropped.
C34_Witness ==
  /\ lflow = "app" /\ lpc = "raised"
  /\ served > 0 /\ all_details = <<>> /\ next_page_token # NoToken

\* C36: process_channel_search rejects an empty keyword, an empty channel
\* reference, a start or end date that is missing or does not parse, and a
\* start date later than the end date: the run ends with an error message
\* and no call to the metadata or the transcript provider has been made.
C36_BadInputsRejectedBeforeCalls ==
  ( /\ fflow = "pcs" /\ fpc # "validate"
    /\ \/ ~keyword_given
       \/ channel_url = <<>>
       \/ fdates.start.kind # "day" \/ fdates.end.kind # "day"
       \/ fdates.start.v > fdates.end.v )
  => /\ fpc = "done" /\ outcome.kind = "input_rejected"
     /\ calls = NoCalls
     /\ yielded = <<"status", "error">>

\* Keyword and channel given, both dates parse, the start is after the end.
C36_Witness ==
  /\ fflow = "pcs" /\ fpc = "done" /\ outcome.kind = "input_rejected"
  /\ keyword_given /\ channel_url # <<>> /\ api_key = "set"
  /\ fdates.start.kind = "day" /\ fdates.end.kind = "day"
  /\ fdates.start.v > fdates.end.v

\* C32: a run of process_channel_search yields its status message and then
\* exactly one final message: an error or info message, or the joined
\* result list, which it yields only when the run got through the search
\* loop; before the end nothing but the status message has been yielded.
C32_OneFinalMessage ==
  fflow = "pcs" =>
    /\ fpc # "done" => yielded \in {<<>>, <<"status">>}
    /\ fpc = "done" =>
         /\ Len(yielded) = 2 /\ yielded[1] = "status"
         /\ yielded[2] \in {"error", "info", "results"}
         /\ yielded[2] = "results" <=> outcome.kind = "returned"

\* The date filter put warnings into the results and kept no video: the
\* run ends with the info message alone.
C32_Witness ==
  /\ fflow = "pcs" /\ fpc = "done" /\ outcome.kind = "no_videos"
  /\ fvideos > 0 /\ fwarned > 0 /\ yielded = <<"status", "info">>

=============================================================================
